---- MODULE Spec2Model ----
(***************************************************************************)
(* Model of prepush.py, the Android pre-push normalizer.                   *)
(*                                                                         *)
(* The script is one linear pipeline over the project directory.  The      *)
(* state is the filesystem below the project root (fs), the position of    *)
(* the running script (pc) with its locals, and history variables that     *)
(* remember what the filesystem looked like earlier.  One action models    *)
(* one numbered section of the script; the environment starts runs, edits  *)
(* the tracked files between runs, answers the download and may make a     *)
(* copy fail.                                                              *)
(*                                                                         *)
(* Text is a sequence of tokens: "\n" is the line break, " " and "\t" are  *)
(* whitespace, "=" is the separator, and every other token stands for a    *)
(* non-empty stretch of characters holding none of those.  An absent file  *)
(* or directory is <<>>, a present one is <<content>>.                     *)
(***************************************************************************)
EXTENDS Integers, Sequences, FiniteSets, TLC

\* ------------------------------------------------------------------ bounds

\* Runs of the script in one behaviour.
MaxRuns == 3
\* Edits of the tracked files by the user in one behaviour.
MaxEdits == 1
\* Lines of an input gradle.properties in the properties specification.
MaxLines == 3

\* ------------------------------------------------------- option and text

Exists(x) == x # <<>>

Some(v) == <<v>>

NL == "\n"

EQ == "="

IsSpace(t) == t \in {" ", "\t"}

\* str.strip(): leading and trailing whitespace removed, inner kept.
RECURSIVE LStrip(_)
LStrip(s) ==
    IF s # <<>> /\ IsSpace(Head(s)) THEN LStrip(Tail(s)) ELSE s

RECURSIVE RStrip(_)
RStrip(s) ==
    IF s # <<>> /\ IsSpace(s[Len(s)]) THEN RStrip(SubSeq(s, 1, Len(s) - 1)) ELSE s

Strip(s) == RStrip(LStrip(s))

\* Index of the first token t of s, 0 when there is none.
RECURSIVE IndexOf(_, _)
IndexOf(s, t) ==
    IF s = <<>> THEN 0
    ELSE IF Head(s) = t THEN 1
    ELSE LET r == IndexOf(Tail(s), t) IN IF r = 0 THEN 0 ELSE r + 1

\* str.splitlines(): a final line break opens no further line.
RECURSIVE SplitLines(_)
SplitLines(s) ==
    IF s = <<>> THEN <<>>
    ELSE LET i == IndexOf(s, NL) IN
         IF i = 0 THEN <<s>>
         ELSE <<SubSeq(s, 1, i - 1)>> \o SplitLines(SubSeq(s, i + 1, Len(s)))

\* "\n".join(lines)
RECURSIVE JoinLines(_)
JoinLines(lines) ==
    IF lines = <<>> THEN <<>>
    ELSE IF Len(lines) = 1 THEN lines[1]
    ELSE lines[1] \o <<NL>> \o JoinLines(Tail(lines))

\* ------------------------------------------------------------- constants

\* Mutant of required: the app directory is not tested.
requiredWithoutApp == <<"settings", "build">>

\* The three entries the project must hold, in the order they are tested.
required == <<"app", "settings", "build">>

\* Mutant of BackupFiles: gradle.properties is not copied.
BackupFilesWithoutProps == <<"settings", "build">>

\* The files the backup stage copies, in the order it copies them.
BackupFiles == <<"settings", "build", "gp">>

SettingsTemplate ==
    <<"pluginManagement{repositories{google()mavenCentral()gradlePluginPortal()}",
      "plugins{id\"com.android.application\"version\"8.1.2\"apply", " ", "false}}", NL,
      "dependencyResolutionManagement{FAIL_ON_PROJECT_REPOS;google()mavenCentral()}", NL,
      "rootProject.name", " ", EQ, " ", "\"Amaal\"", NL,
      "include(\":app\")", NL>>

BuildTemplate ==
    <<"tasks.register(\"clean\",", " ", "Delete){delete", " ", "rootProject.buildDir}", NL>>

WrapperPropsTemplate ==
    <<"distributionBase", EQ, "GRADLE_USER_HOME", NL,
      "distributionPath", EQ, "wrapper/dists", NL,
      "distributionUrl", EQ, "https\\://services.gradle.org/distributions/gradle-8.2.1-bin.zip", NL,
      "zipStoreBase", EQ, "GRADLE_USER_HOME", NL,
      "zipStorePath", EQ, "wrapper/dists", NL>>

\* The keys section 4 forces, with their values, in the order it sets them.
MandatoryProps ==
    <<[k |-> <<"android.useAndroidX">>, v |-> <<"true">>],
      [k |-> <<"android.enableJetifier">>, v |-> <<"true">>],
      [k |-> <<"org.gradle.jvmargs">>, v |-> <<"-Xmx2048m">>]>>

\* 0o755
Mode755 == 493

\* ------------------------------------------------ section 0: basic sanity

\* The first required entry that is absent, <<>> when none is.
RECURSIVE FirstMissing(_, _)
FirstMissing(f, items) ==
    IF items = <<>> THEN <<>>
    ELSE IF (IF Head(items) = "app" THEN ~f.app ELSE ~Exists(f[Head(items)]))
         THEN Some(Head(items))
         ELSE FirstMissing(f, Tail(items))

Missing(f) == Exists(FirstMissing(f, required))

\* -------------------------------------------------- section 1: the backup

\* Mutant of BackupNeeded: the stage is not guarded by the directory.
BackupAlways(f) == TRUE

BackupNeeded(f) == ~Exists(f.backup)

\* BACKUP_DIR.mkdir()
MakeBackupDir(f) == [f EXCEPT !.backup = Some({})]

\* shutil.copy(p, BACKUP_DIR / f"{f}.{timestamp}.bak") when p exists: a file of
\* that name is replaced.
CopyOne(f, name, t) ==
    IF ~Exists(f[name]) THEN f
    ELSE [f EXCEPT !.backup =
             Some({e \in f.backup[1] : ~(e.name = name /\ e.ts = t)}
                  \cup {[name |-> name, ts |-> t, content |-> f[name][1]]})]

\* ------------------------------------- sections 2 and 3: fixed templates

NormalizeSettings(f) == [f EXCEPT !.settings = Some(SettingsTemplate)]

SanitizeBuild(f) == [f EXCEPT !.build = Some(BuildTemplate)]

\* ------------------------------------------ section 4: gradle.properties

\* Mutant of ParseLine: split at the last separator (rsplit).
ParseLineAtLastSep(line) ==
    LET i == CHOOSE p \in DOMAIN line :
                 line[p] = EQ /\ \A q \in (p + 1)..Len(line) : line[q] # EQ
    IN [k |-> Strip(SubSeq(line, 1, i - 1)), v |-> Strip(SubSeq(line, i + 1, Len(line)))]

\* line.split("=", 1), key and value stripped
ParseLine(line) ==
    LET i == IndexOf(line, EQ) IN
    [k |-> Strip(SubSeq(line, 1, i - 1)), v |-> Strip(SubSeq(line, i + 1, Len(line)))]

\* Mutant of DictSet: a list of pairs that is only ever appended to.
DictAppend(props, kv) == Append(props, kv)

\* props[k] = v on an insertion-ordered dict: a present key keeps its place.
DictSet(props, kv) ==
    IF \E i \in DOMAIN props : props[i].k = kv.k
    THEN [i \in DOMAIN props |-> IF props[i].k = kv.k THEN kv ELSE props[i]]
    ELSE Append(props, kv)

RECURSIVE ParseProps(_, _)
ParseProps(props, lines) ==
    IF lines = <<>> THEN props
    ELSE ParseProps(IF IndexOf(Head(lines), EQ) # 0
                    THEN DictSet(props, ParseLine(Head(lines)))
                    ELSE props,
                    Tail(lines))

RECURSIVE SetAll(_, _)
SetAll(props, kvs) ==
    IF kvs = <<>> THEN props ELSE SetAll(DictSet(props, Head(kvs)), Tail(kvs))

\* "\n".join(f"{k}={v}" ...) + "\n"
FormatProps(props) ==
    JoinLines([i \in DOMAIN props |-> props[i].k \o <<EQ>> \o props[i].v]) \o <<NL>>

EnforceProps(f) ==
    LET read == IF Exists(f.gp) THEN ParseProps(<<>>, SplitLines(f.gp[1])) ELSE <<>>
    IN [f EXCEPT !.gp = Some(FormatProps(SetAll(read, MandatoryProps)))]

\* ------------------------------------------------- section 5: the wrapper

\* wrapper_dir.mkdir(parents=True, exist_ok=True), then the properties file
\* when it is absent.
EnsureWrapperProps(f) ==
    [f EXCEPT !.wdir = TRUE,
              !.wprops = IF Exists(f.wprops) THEN f.wprops ELSE Some(WrapperPropsTemplate)]

\* Mutant of NeedsDownload: an empty jar counts as absent.
NeedsDownloadUnlessValid(f) == ~Exists(f.jar) \/ f.jar = Some(<<>>)

NeedsDownload(f) == ~Exists(f.jar)

\* Mutant of EndsWithWrapperJar: any jar whose name starts with gradle-wrapper.
EndsWithAnyWrapperJar(path) ==
    path # <<>> /\ path[Len(path)] \in {"gradle-wrapper.jar", "gradle-wrapper-8.2.1.jar"}

\* n.endswith("gradle-wrapper.jar") on an entry name: decided by its last
\* component, the suffix holding no "/".
EndsWithWrapperJar(path) ==
    path # <<>> /\ path[Len(path)] \in {"gradle-wrapper.jar", "x-gradle-wrapper.jar"}

\* [n for n in z.namelist() if n.endswith("gradle-wrapper.jar")], as entries
JarPaths(entries) == SelectSeq(entries, LAMBDA e : EndsWithWrapperJar(e.path))

\* Mutant of InstallJar: the extracted directories are left behind.
InstallJarKeepTree(f) ==
    LET src == JarPaths(f.zip[1].entries)[1] IN
    [f EXCEPT !.jar = Some(src.content),
              !.wtree = IF Len(src.path) > 1 THEN f.wtree \cup {src.path[1]} ELSE f.wtree,
              !.zip = <<>>]

\* z.extract, rename, rmtree of the entry's first component: the entry lands
\* on gradle-wrapper.jar; a first component that is a directory is removed
\* with all it holds, one that is the file itself was renamed away (or is the
\* jar, which rmtree with ignore_errors leaves alone).  Then zip_path.unlink().
InstallJar(f) ==
    LET src == JarPaths(f.zip[1].entries)[1] IN
    [f EXCEPT !.jar = Some(src.content),
              !.wtree = f.wtree \ {src.path[1]},
              !.zip = <<>>]

\* ------------------------------------------------- section 6: the launcher

\* Mutant of Chmod: 755 written in decimal.
ChmodDecimal(f) == [f EXCEPT !.gradlew = Some([f.gradlew[1] EXCEPT !.mode = 755])]

Chmod(f) == [f EXCEPT !.gradlew = Some([f.gradlew[1] EXCEPT !.mode = Mode755])]

\* ----------------------------------------------------------- environment

\* A gradle.properties as a user writes it.
Gp1 == <<"foo", EQ, "bar", NL, "android.useAndroidX", " ", EQ, "false", NL>>

\* What a user's edit puts into a tracked file.
EditContents(name) ==
    CASE name = "settings" -> {<<>>, Some(<<"include", " ", "':app',':lib'", NL>>)}
      [] name = "build" -> {Some(<<"allprojects{repositories{jcenter()}}", NL>>)}
      [] name = "gp" -> {<<>>, Some(<<"org.gradle.daemon", EQ, "false", NL>> \o Gp1)}

\* The gradle/wrapper directory before the first run: absent; present with a
\* properties file of the user's and a stale directory; present with an empty
\* gradle-wrapper.jar.
WrapperShapes ==
    {[wdir |-> FALSE, wprops |-> <<>>, jar |-> <<>>, wtree |-> {}],
     [wdir |-> TRUE, wprops |-> Some(<<"distributionUrl", EQ, "gradle-7.6-bin.zip", NL>>),
      jar |-> <<>>, wtree |-> {"gradle-8.2.1"}],
     [wdir |-> TRUE, wprops |-> <<>>, jar |-> Some(<<>>), wtree |-> {}]}

LauncherShapes == {<<>>, Some([content |-> <<"#!/bin/sh">>, mode |-> 420])}

Project(app, settings, build, gp, backup, w, gradlew) ==
    [app |-> app, settings |-> settings, build |-> build, gp |-> gp,
     backup |-> backup, wdir |-> w.wdir, wprops |-> w.wprops, jar |-> w.jar,
     wtree |-> w.wtree, zip |-> <<>>, gradlew |-> gradlew]

\* The projects the tool is first run on: no backup directory yet.
InitProjects ==
    {Project(app, settings, build, gp, <<>>, w, gradlew) :
        app \in BOOLEAN,
        settings \in {<<>>, Some(<<"include", " ", "':app'", NL>>)},
        build \in {<<>>, Some(<<"buildscript{repositories{google()}}", NL>>)},
        gp \in {<<>>, Some(Gp1)},
        w \in WrapperShapes,
        gradlew \in LauncherShapes}

\* Lines a gradle.properties may hold: a plain pair, the same key again with
\* whitespace around key and value, a comment, two of the forced keys with
\* other values, a key with inner whitespace whose value holds the separator,
\* the same key again with an empty value, an empty line.
LinePool ==
    {<<"foo", EQ, "bar">>,
     <<" ", "foo", " ", EQ, "\t", "baz", " ">>,
     <<"#", " ", "comment">>,
     <<"android.useAndroidX", EQ, "false">>,
     <<"org.gradle.jvmargs", " ", EQ, " ", "-Xmx512m">>,
     <<"my", " ", "url", EQ, "a", EQ, "b">>,
     <<"my", " ", "url", " ", EQ>>,
     <<>>}

RECURSIVE LineSeqs(_)
LineSeqs(n) ==
    IF n = 0 THEN {<<>>}
    ELSE LET shorter == LineSeqs(n - 1) IN
         shorter \cup {Append(ls, l) : ls \in {x \in shorter : Len(x) = n - 1}, l \in LinePool}

\* The input files of the properties specification: none, or up to MaxLines
\* lines of the pool, the last with or without its line break.
GpInputs ==
    {<<>>} \cup {Some(JoinLines(ls) \o tail) : ls \in LineSeqs(MaxLines), tail \in {<<>>, <<NL>>}}

\* Projects the tool has normalized before and whose tracked files the user
\* has written anew since: backup directory, wrapper and launcher are there.
PropsProjects ==
    {Project(TRUE,
             Some(<<"include", " ", "':app',':lib'", NL>>),
             Some(<<"allprojects{repositories{jcenter()}}", NL>>),
             gp,
             Some({[name |-> "settings", ts |-> 0, content |-> <<"include", " ", "':app'", NL>>],
                   [name |-> "build", ts |-> 0,
                    content |-> <<"buildscript{repositories{google()}}", NL>>]}),
             [wdir |-> TRUE, wprops |-> Some(WrapperPropsTemplate),
              jar |-> Some(<<"jarA">>), wtree |-> {}],
             Some([content |-> <<"#!/bin/sh">>, mode |-> Mode755])) :
        gp \in GpInputs}

Entry(path, content) == [path |-> path, content |-> content]

\* What the distribution URL may answer with: an archive whose entries are
\* listed in archive order.
Archives ==
    {<<Entry(<<"gradle-8.2.1", "README">>, <<"txt">>),
       Entry(<<"gradle-8.2.1", "lib", "gradle-wrapper.jar">>, <<"jarA">>),
       Entry(<<"gradle-8.2.1", "lib", "x-gradle-wrapper.jar">>, <<"jarB">>)>>,
     <<Entry(<<"dist", "x-gradle-wrapper.jar">>, <<"jarB">>),
       Entry(<<"gradle-8.2.1", "gradle-wrapper.jar">>, <<"jarA">>)>>,
     <<Entry(<<"gradle-wrapper.jar">>, <<"jarA">>)>>,
     <<Entry(<<"gradle-8.2.1", "lib", "gradle-wrapper-8.2.1.jar">>, <<"jarC">>)>>,
     <<>>}

\* urlretrieve: the archive arrives, or the call raises, with or without a
\* truncated file left at the target path.
NetOutcomes ==
    {[ok |-> TRUE, zip |-> Some([complete |-> TRUE, entries |-> a])] : a \in Archives}
    \cup {[ok |-> FALSE, zip |-> z] :
            z \in {<<>>, Some([complete |-> FALSE, entries |-> <<>>])}}

\* ------------------------------------------------------------------ state

VARIABLES
    fs,          \* the filesystem below the project root
    pc,          \* where the run is, or how it ended
    exit,        \* the exit status of the run, <<>> while it runs
    ts,          \* timestamp (line 50), 0 before it is taken
    idx,         \* position of the loop of line 52 in BackupFiles
    clock,       \* the number of the run, which is also what datetime.now() reads
    start,       \* history: fs and downloads when the run started
    orig,        \* history: fs when a run first passed the sanity check
    overwritten, \* history: a tracked file has been rewritten by the tool
    downloads,   \* history: calls of urlretrieve so far
    dlArchive,   \* history: the archive the run downloaded
    resume,      \* history: start of the run a download failure interrupted
    prevOut,     \* history: tracked files as the previous run left them
    edited,      \* history: a tracked file was edited since the run ended
    edits        \* history: user edits so far

vars == <<fs, pc, exit, ts, idx, clock, start, orig, overwritten, downloads,
          dlArchive, resume, prevOut, edited, edits>>

locals == <<ts, idx>>

Terminal ==
    {"done", "died_sanity", "died_jar", "died_gradlew", "crashed_copy", "crashed_download"}

\* Positions and endings of a run that has executed sections 2 to 4.
PastProps ==
    {"wrapper_props", "wrapper_jar", "download", "extract", "gradlew",
     "done", "died_jar", "died_gradlew", "crashed_download"}

\* Positions and endings of a run that has completed section 1.
PastBackup == PastProps \cup {"settings", "build", "props"}

Tracked(f) == [settings |-> f.settings, build |-> f.build, gp |-> f.gp]

InitWith(projects) ==
    /\ fs \in projects
    /\ pc = "sanity"
    /\ exit = <<>>
    /\ ts = 0
    /\ idx = 0
    /\ clock = 1
    /\ start = [fs |-> fs, downloads |-> 0]
    /\ orig = <<>>
    /\ overwritten = FALSE
    /\ downloads = 0
    /\ dlArchive = <<>>
    /\ resume = <<>>
    /\ prevOut = <<>>
    /\ edited = FALSE
    /\ edits = 0

Init == InitWith(InitProjects)

\* die(msg): sys.exit(1)
Die(where) ==
    /\ pc' = where
    /\ exit' = Some(1)

\* An exception nothing catches: the interpreter exits with status 1.
Raise(where) ==
    /\ pc' = where
    /\ exit' = Some(1)

\* Section 0.
Sanity ==
    /\ pc = "sanity"
    /\ IF Missing(fs)
       THEN Die("died_sanity") /\ UNCHANGED orig
       ELSE /\ pc' = "backup"
            /\ orig' = IF Exists(orig) THEN orig ELSE Some(fs)
            /\ UNCHANGED exit
    /\ UNCHANGED <<fs, locals, clock, start, overwritten, downloads, dlArchive,
                   resume, prevOut, edited, edits>>

\* Section 1, lines 48-50 and 58-59.
Backup ==
    /\ pc = "backup"
    /\ IF BackupNeeded(fs)
       THEN /\ fs' = MakeBackupDir(fs)
            /\ ts' = clock
            /\ idx' = 1
            /\ pc' = "copy"
       ELSE /\ pc' = "settings"
            /\ UNCHANGED <<fs, locals>>
    /\ UNCHANGED <<exit, clock, start, orig, overwritten, downloads, dlArchive,
                   resume, prevOut, edited, edits>>

\* Section 1, one turn of the loop of lines 52-55; the copy may raise.
BackupCopy ==
    /\ pc = "copy"
    /\ \E copied \in BOOLEAN :
          IF copied \/ ~Exists(fs[BackupFiles[idx]])
          THEN /\ fs' = CopyOne(fs, BackupFiles[idx], ts)
               /\ idx' = idx + 1
               /\ pc' = IF idx = Len(BackupFiles) THEN "settings" ELSE "copy"
               /\ UNCHANGED exit
          ELSE /\ Raise("crashed_copy")
               /\ UNCHANGED <<fs, idx>>
    /\ UNCHANGED <<ts, clock, start, orig, overwritten, downloads, dlArchive,
                   resume, prevOut, edited, edits>>

\* Section 2.
Settings ==
    /\ pc = "settings"
    /\ fs' = NormalizeSettings(fs)
    /\ overwritten' = TRUE
    /\ pc' = "build"
    /\ UNCHANGED <<exit, locals, clock, start, orig, downloads, dlArchive,
                   resume, prevOut, edited, edits>>

\* Section 3.
Build ==
    /\ pc = "build"
    /\ fs' = SanitizeBuild(fs)
    /\ pc' = "props"
    /\ UNCHANGED <<exit, locals, clock, start, orig, overwritten, downloads,
                   dlArchive, resume, prevOut, edited, edits>>

\* Section 4.
Props ==
    /\ pc = "props"
    /\ fs' = EnforceProps(fs)
    /\ pc' = "wrapper_props"
    /\ UNCHANGED <<exit, locals, clock, start, orig, overwritten, downloads,
                   dlArchive, resume, prevOut, edited, edits>>

\* Section 5, lines 128-137.
WrapperProps ==
    /\ pc = "wrapper_props"
    /\ fs' = EnsureWrapperProps(fs)
    /\ pc' = "wrapper_jar"
    /\ UNCHANGED <<exit, locals, clock, start, orig, overwritten, downloads,
                   dlArchive, resume, prevOut, edited, edits>>

\* Section 5, lines 139 and 161-162.
WrapperJar ==
    /\ pc = "wrapper_jar"
    /\ pc' = IF NeedsDownload(fs) THEN "download" ELSE "gradlew"
    /\ UNCHANGED <<fs, exit, locals, clock, start, orig, overwritten, downloads,
                   dlArchive, resume, prevOut, edited, edits>>

\* Section 5, line 145.
Download ==
    /\ pc = "download"
    /\ downloads' = downloads + 1
    /\ \E r \in NetOutcomes :
          IF r.ok
          THEN /\ fs' = [fs EXCEPT !.zip = r.zip]
               /\ dlArchive' = Some(r.zip[1].entries)
               /\ pc' = "extract"
               /\ UNCHANGED <<exit, resume>>
          ELSE /\ fs' = [fs EXCEPT !.zip = IF Exists(r.zip) THEN r.zip ELSE fs.zip]
               /\ Raise("crashed_download")
               /\ resume' = IF Exists(resume) THEN resume
                            ELSE Some([fs |-> start.fs, clock |-> clock])
               /\ UNCHANGED dlArchive
    /\ UNCHANGED <<locals, clock, start, orig, overwritten, prevOut, edited, edits>>

\* Section 5, lines 147-160.
Extract ==
    /\ pc = "extract"
    /\ IF JarPaths(fs.zip[1].entries) = <<>>
       THEN Die("died_jar") /\ UNCHANGED fs
       ELSE /\ fs' = InstallJar(fs)
            /\ pc' = "gradlew"
            /\ UNCHANGED exit
    /\ UNCHANGED <<locals, clock, start, orig, overwritten, downloads, dlArchive,
                   resume, prevOut, edited, edits>>

\* Sections 6 and 7.
Gradlew ==
    /\ pc = "gradlew"
    /\ IF ~Exists(fs.gradlew)
       THEN Die("died_gradlew") /\ UNCHANGED fs
       ELSE /\ fs' = Chmod(fs)
            /\ pc' = "done"
            /\ exit' = Some(0)
    /\ UNCHANGED <<locals, clock, start, orig, overwritten, downloads, dlArchive,
                   resume, prevOut, edited, edits>>

\* The user changes or deletes a tracked file between two runs.
UserEdit ==
    /\ pc \in Terminal
    /\ edits < MaxEdits
    /\ \E name \in {"settings", "build", "gp"} : \E c \in EditContents(name) :
          /\ fs[name] # c
          /\ fs' = [fs EXCEPT ![name] = c]
    /\ edits' = edits + 1
    /\ edited' = TRUE
    /\ resume' = <<>>
    /\ UNCHANGED <<pc, exit, locals, clock, start, orig, overwritten, downloads,
                   dlArchive, prevOut>>

\* The tool is run again.
StartRun ==
    /\ pc \in Terminal
    /\ clock < MaxRuns
    /\ clock' = clock + 1
    /\ pc' = "sanity"
    /\ exit' = <<>>
    /\ ts' = 0
    /\ idx' = 0
    /\ start' = [fs |-> fs, downloads |-> downloads]
    /\ dlArchive' = <<>>
    /\ resume' = IF pc = "crashed_download" THEN resume ELSE <<>>
    /\ prevOut' = IF pc \in PastProps /\ ~edited THEN Some(Tracked(fs)) ELSE <<>>
    /\ edited' = FALSE
    /\ UNCHANGED <<fs, orig, overwritten, downloads, edits>>

Next ==
    \/ Sanity
    \/ Backup
    \/ BackupCopy
    \/ Settings
    \/ Build
    \/ Props
    \/ WrapperProps
    \/ WrapperJar
    \/ Download
    \/ Extract
    \/ Gradlew
    \/ UserEdit
    \/ StartRun

Spec == Init /\ [][Next]_vars

\* The runs of a project that needs neither backup nor download, over every
\* input gradle.properties.
InitProps == InitWith(PropsProjects)

NextProps ==
    \/ Sanity
    \/ Backup
    \/ Settings
    \/ Build
    \/ Props
    \/ WrapperProps
    \/ WrapperJar
    \/ Gradlew
    \/ StartRun

SpecProps == InitProps /\ [][NextProps]_vars

\* ------------------------------------------------------------------ claims

ThreeFiles == {"settings", "build", "gp"}

\* C1: when app, settings.gradle or build.gradle is absent as a run starts, the
\* run gets no further than the sanity check: it ends there with exit status 1,
\* the filesystem is what it was when the run started (no backup directory, no
\* written file, no wrapper directory) and no download was attempted.  (What the
\* user does to the files after the run has ended is not the run's doing.)
C1_PreflightFailureChangesNothing ==
    (~start.fs.app \/ ~Exists(start.fs.settings) \/ ~Exists(start.fs.build))
        /\ pc # "sanity"
        /\ ~edited
    => /\ pc = "died_sanity"
       /\ exit = Some(1)
       /\ fs = start.fs
       /\ downloads = start.downloads

C1_Witness ==
    /\ pc = "died_sanity"
    /\ ~start.fs.app
    /\ Exists(start.fs.settings)
    /\ Exists(start.fs.gp)
    /\ ~Exists(fs.backup)
    /\ ~fs.wdir

\* The backup directory holds one copy of every tracked file that f0 has, with
\* the content it has in f0, and nothing else.
ExactBackupOf(b, f0) ==
    /\ Exists(b)
    /\ \A name \in ThreeFiles :
          LET copies == {e \in b[1] : e.name = name} IN
          IF Exists(f0[name])
          THEN Cardinality(copies) = 1 /\ \A e \in copies : e.content = f0[name][1]
          ELSE copies = {}
    /\ \A e \in b[1] : e.name \in ThreeFiles

\* C2: a run that finds no backup directory and completes the backup stage
\* leaves a backup directory with exactly one copy of each of settings.gradle,
\* build.gradle and gradle.properties that existed when it started; a run that
\* finds a backup directory never changes it, whatever became of the tracked
\* files since.
C2_BackupOnceThenFrozen ==
    /\ Exists(start.fs.backup) => fs.backup = start.fs.backup
    /\ ~Exists(start.fs.backup) /\ pc \in PastBackup => ExactBackupOf(fs.backup, start.fs)

C2_Witness ==
    /\ pc = "done"
    /\ clock = 3
    /\ edits = 1
    /\ Exists(start.fs.backup)
    /\ Cardinality(fs.backup[1]) = 3
    /\ \E e \in fs.backup[1] : e.name = "settings" /\ Some(e.content) # start.fs.settings

\* C5: from a state in which gradle-wrapper.jar exists, whatever it holds, no
\* step downloads, changes the jar or touches the archive path in the root; so
\* no run after the jar came to exist downloads again.
C5_NoDownloadOnceJarExists ==
    [][Exists(fs.jar) =>
         /\ downloads' = downloads
         /\ fs'.jar = fs.jar
         /\ fs'.zip = fs.zip]_vars

C5_Witness ==
    /\ pc = "done"
    /\ clock >= 2
    /\ start.fs.jar = Some(<<>>)
    /\ downloads = 0

\* What one uninterrupted run makes of project f0 at time t when the download,
\* if it comes to one, answers with the archive `entries`.
RefFinish(f) ==
    IF Exists(f.gradlew) THEN [fs |-> Chmod(f), exit |-> 0] ELSE [fs |-> f, exit |-> 1]

RefRun(f0, t, entries) ==
    IF Missing(f0) THEN [fs |-> f0, exit |-> 1]
    ELSE LET f1 == IF BackupNeeded(f0)
                   THEN CopyOne(CopyOne(CopyOne(MakeBackupDir(f0), BackupFiles[1], t),
                                        BackupFiles[2], t), BackupFiles[3], t)
                   ELSE f0
             f4 == EnsureWrapperProps(EnforceProps(SanitizeBuild(NormalizeSettings(f1))))
             f5 == [f4 EXCEPT !.zip = Some([complete |-> TRUE, entries |-> entries])]
         IN IF ~NeedsDownload(f4) THEN RefFinish(f4)
            ELSE IF JarPaths(entries) = <<>> THEN [fs |-> f5, exit |-> 1]
            ELSE RefFinish(InstallJar(f5))

\* C6: when a run was interrupted by a failing download and the tool is run
\* again with nothing changed in between, the run that gets its download ends
\* with the exit status and the filesystem (tracked files, wrapper properties,
\* wrapper jar, launcher, backup directory) that one uninterrupted run from the
\* project as it was before the interrupted run ends with.
C6_RerunAfterFailedDownload ==
    Exists(resume) /\ pc \in {"done", "died_jar", "died_gradlew"}
    => LET ref == RefRun(resume[1].fs, resume[1].clock, dlArchive[1]) IN
       /\ fs = ref.fs
       /\ exit = Some(ref.exit)

C6_Witness ==
    /\ Exists(resume)
    /\ pc = "done"
    /\ clock > resume[1].clock
    /\ ~Exists(resume[1].fs.backup)
    /\ Exists(resume[1].fs.gp)
    /\ fs.jar = Some(<<"jarA">>)

\* C7: a run ends with exit status 0 only by reaching the end with gradlew
\* present, and then gradlew has mode 0755 and the content it had; a run that
\* starts without gradlew ends with exit status 1 and without gradlew.
C7_LauncherExecutableOnSuccess ==
    /\ pc = "done" \/ exit = Some(0)
       => /\ pc = "done"
          /\ exit = Some(0)
          /\ Exists(start.fs.gradlew)
          /\ fs.gradlew = Some([content |-> start.fs.gradlew[1].content, mode |-> 493])
    /\ pc \in Terminal /\ ~Exists(start.fs.gradlew)
       => exit = Some(1) /\ ~Exists(fs.gradlew)

C7_Witness ==
    /\ pc = "done"
    /\ start.fs.gradlew[1].mode # 493
    /\ fs.gradlew[1].mode = 493

\* An entry whose path ends in gradle-wrapper.jar.
IsWrapperEntry(e) ==
    LET last == e.path[Len(e.path)] IN
    last = "gradle-wrapper.jar" \/ last = "x-gradle-wrapper.jar"

\* C8: when the run downloaded an archive none of whose entries ends in
\* gradle-wrapper.jar, it ends at the extraction with exit status 1, the jar
\* still absent, the archive still in the project root and the launcher as it
\* was (the permission step was not reached).
C8_ArchiveWithoutWrapperJar ==
    /\ Exists(dlArchive)
    /\ pc # "extract"
    /\ \A i \in DOMAIN dlArchive[1] : ~IsWrapperEntry(dlArchive[1][i])
    => /\ pc = "died_jar"
       /\ exit = Some(1)
       /\ ~Exists(fs.jar)
       /\ fs.zip = Some([complete |-> TRUE, entries |-> dlArchive[1]])
       /\ fs.gradlew = start.fs.gradlew

C8_Witness ==
    /\ pc = "died_jar"
    /\ dlArchive[1] # <<>>
    /\ Exists(fs.gradlew)
    /\ fs.gradlew[1].mode # 493

\* C9: when the run downloaded an archive with an entry ending in
\* gradle-wrapper.jar, then from the end of the installer step on
\* gradle-wrapper.jar holds the content of the first such entry, the archive is
\* gone from the project root, the directory the entry's path starts with is
\* gone from gradle/wrapper, and a gradle-wrapper.properties that existed when
\* the run started is as it was.
C9_WrapperJarInstalled ==
    /\ Exists(dlArchive)
    /\ pc # "extract"
    /\ \E i \in DOMAIN dlArchive[1] : IsWrapperEntry(dlArchive[1][i])
    => LET a == dlArchive[1]
           i == CHOOSE j \in DOMAIN a :
                   IsWrapperEntry(a[j]) /\ \A k \in 1..(j - 1) : ~IsWrapperEntry(a[k])
       IN /\ fs.jar = Some(a[i].content)
          /\ ~Exists(fs.zip)
          /\ Len(a[i].path) > 1 => a[i].path[1] \notin fs.wtree
          /\ Exists(start.fs.wprops) => fs.wprops = start.fs.wprops

C9_Witness ==
    /\ pc = "gradlew"
    /\ Exists(dlArchive)
    /\ Len(dlArchive[1]) = 2
    /\ fs.jar = Some(<<"jarB">>)
    /\ "gradle-8.2.1" \in start.fs.wtree
    /\ Exists(start.fs.wprops)

\* The reference merge of C3, stated on the lines of input and output.
RefTrim(t) ==
    LET solid == {j \in DOMAIN t : t[j] \notin {" ", "\t"}} IN
    IF solid = {} THEN <<>>
    ELSE SubSeq(t, CHOOSE a \in solid : \A j \in solid : a <= j,
                   CHOOSE b \in solid : \A j \in solid : b >= j)

RefSep(l) == CHOOSE p \in DOMAIN l : l[p] = "=" /\ \A q \in 1..(p - 1) : l[q] # "="

RefKey(l) == RefTrim(SubSeq(l, 1, RefSep(l) - 1))

RefValue(l) == RefTrim(SubSeq(l, RefSep(l) + 1, Len(l)))

RefForced ==
    <<[k |-> <<"android.useAndroidX">>, v |-> <<"true">>],
      [k |-> <<"android.enableJetifier">>, v |-> <<"true">>],
      [k |-> <<"org.gradle.jvmargs">>, v |-> <<"-Xmx2048m">>]>>

RefMerge(inp, out) ==
    LET lines == IF Exists(inp) THEN SplitLines(inp[1]) ELSE <<>>
        pairs == {i \in DOMAIN lines : \E p \in DOMAIN lines[i] : lines[i][p] = "="}
        firsts == {i \in pairs : \A j \in pairs : j < i => RefKey(lines[j]) # RefKey(lines[i])}
        inputKeys == {RefKey(lines[i]) : i \in pairs}
        added == {m \in DOMAIN RefForced : RefForced[m].k \notin inputKeys}
        LastValue(k) ==
            LET last == CHOOSE i \in pairs :
                            RefKey(lines[i]) = k
                            /\ \A j \in pairs : RefKey(lines[j]) = k => j <= i
            IN RefValue(lines[last])
        Value(k) ==
            IF \E m \in DOMAIN RefForced : RefForced[m].k = k
            THEN RefForced[CHOOSE m \in DOMAIN RefForced : RefForced[m].k = k].v
            ELSE LastValue(k)
        Line(k) == k \o <<"=">> \o Value(k)
        ol == SplitLines(out[1])
    IN /\ Exists(out)
       /\ out[1] = JoinLines(ol) \o <<"\n">>
       /\ Len(ol) = Cardinality(firsts) + Cardinality(added)
       /\ \A i \in firsts :
             ol[Cardinality({j \in firsts : j <= i})] = Line(RefKey(lines[i]))
       /\ \A m \in added :
             ol[Cardinality(firsts) + Cardinality({j \in added : j <= m})] = Line(RefForced[m].k)
       /\ \A a, b \in DOMAIN ol :
             a # b => SubSeq(ol[a], 1, RefSep(ol[a]) - 1) # SubSeq(ol[b], 1, RefSep(ol[b]) - 1)

\* C3: the gradle.properties a run has written is the reference merge of the
\* gradle.properties it started with: one line per key, keys of the input in
\* the order of their first appearance and with the value of their last, the
\* three forced keys with their fixed values, in place when the input had them
\* and appended otherwise; foo=bar alone gives foo=bar and the three forced keys.
C3_PropertiesAreTheReferenceMerge ==
    pc \in PastProps /\ ~edited
    => /\ RefMerge(start.fs.gp, fs.gp)
       /\ start.fs.gp = Some(<<"foo", "=", "bar", "\n">>)
          => fs.gp = Some(<<"foo", "=", "bar", "\n",
                            "android.useAndroidX", "=", "true", "\n",
                            "android.enableJetifier", "=", "true", "\n",
                            "org.gradle.jvmargs", "=", "-Xmx2048m", "\n">>)

C3_Witness ==
    /\ pc = "done"
    /\ start.fs.gp = Some(<<"org.gradle.jvmargs", " ", "=", " ", "-Xmx512m", "\n",
                            "foo", "=", "bar", "\n",
                            " ", "foo", " ", "=", "\t", "baz", " ">>)
    /\ fs.gp = Some(<<"org.gradle.jvmargs", "=", "-Xmx2048m", "\n",
                      "foo", "=", "baz", "\n",
                      "android.useAndroidX", "=", "true", "\n",
                      "android.enableJetifier", "=", "true", "\n">>)

\* C4: after sections 2 to 4 of any run settings.gradle and build.gradle hold
\* their fixed templates, and when the previous run also got that far and
\* nothing was edited since, the three tracked files are what that run left.
C4_RegenerationIsIdempotent ==
    pc \in PastProps /\ ~edited
    => /\ fs.settings = Some(SettingsTemplate)
       /\ fs.build = Some(BuildTemplate)
       /\ Exists(prevOut) => Tracked(fs) = prevOut[1]

C4_Witness ==
    /\ pc = "done"
    /\ clock = 2
    /\ Exists(prevOut)
    /\ Len(SplitLines(fs.gp[1])) = 5
    /\ start.fs.settings = Some(SettingsTemplate)

\* C10: once the tool has rewritten a tracked file, the backup directory holds,
\* for each tracked file that existed when the tool first got past its sanity
\* check, a copy with the content the file had then.
C10_OriginalsBackedUpBeforeOverwrite ==
    overwritten =>
        \A name \in ThreeFiles :
            Exists(orig[1][name]) =>
                /\ Exists(fs.backup)
                /\ \E e \in fs.backup[1] : e.name = name /\ e.content = orig[1][name][1]

====
